---- MODULE Spec2Model ----
(***************************************************************************)
(* Progress-tracking state machine of frontend/src/app/page.tsx: the       *)
(* upload handler, the server-sent-event stream callbacks, the 30 s        *)
(* watchdog and the simulated ("demo") fallback timeline, all writing to   *)
(* one deduplicating update log.                                           *)
(*                                                                         *)
(* JavaScript runs one callback at a time, so every action below is one    *)
(* whole callback (or the part of an async function between two awaits).   *)
(* Callbacks created by a submit close over that submit's EventSource and  *)
(* file; they are indexed by the session number s.  Message texts are the *)
(* source's without their leading emoji and inner quotes.                  *)
(***************************************************************************)
EXTENDS Integers, Sequences, FiniteSets, TLC

(* ---------------------------- bounds ---------------------------------- *)
MaxSessions == 2      \* submits explored
MaxFrames   == 2      \* stream frames delivered in a run
MaxHints    == 2      \* hint words in a receipt's name, and in its text

Sessions == 1..MaxSessions

(* --------------------------- documents -------------------------------- *)
NoFile == [kind |-> "none"]

\* A File as the fallback heuristics see it: the lower-cased name's hint
\* words, whether it counts as an image (its type, or the name's
\* extension), the hint words of its text and the first capture of the
\* Total pattern in its text.
starbucksJpg ==
  [kind |-> "file", isImage |-> TRUE, nameHints |-> {"starbucks"},
   contentHints |-> {}, totalMatch |-> "none"]
wineTxt ==
  [kind |-> "file", isImage |-> FALSE, nameHints |-> {},
   contentHints |-> {"WINE"}, totalMatch |-> "42.10"]
Files == {starbucksJpg, wineTxt}

(* --------------------------- update log ------------------------------- *)
\* An AgentUpdate also carries timestamp: new Date().toISOString(), which
\* no code reads back; the log entries here are the other three fields.
Key(agent, status, message) == agent \o "|" \o status \o "|" \o message

\* pushUpdate(agent, status, message) on the state st.  from names the
\* code that calls it and is recorded beside the log (origin), not in it;
\* dropped counts the calls that return early.

\* pushUpdate that appends without consulting the emitted set.
pushUpdateNoDedup(st, agent, status, message, from) ==
  [st EXCEPT !.emitted = @ \cup {Key(agent, status, message)},
             !.updates = Append(@, [agent |-> agent, status |-> status,
                                    message |-> message]),
             !.origin  = Append(@, from)]

\* pushUpdate that puts the new entry before the others.
pushUpdatePrepend(st, agent, status, message, from) ==
  IF Key(agent, status, message) \in st.emitted
    THEN [st EXCEPT !.dropped = @ + 1]
    ELSE [st EXCEPT !.emitted = @ \cup {Key(agent, status, message)},
                    !.updates = <<[agent |-> agent, status |-> status,
                                   message |-> message]>> \o @,
                    !.origin  = <<from>> \o @]

\* pushUpdate that sets the log to the new entry alone.
pushUpdateReplace(st, agent, status, message, from) ==
  IF Key(agent, status, message) \in st.emitted
    THEN [st EXCEPT !.dropped = @ + 1]
    ELSE [st EXCEPT !.emitted = @ \cup {Key(agent, status, message)},
                    !.updates = <<[agent |-> agent, status |-> status,
                                   message |-> message]>>,
                    !.origin  = <<from>>]

pushUpdate(st, agent, status, message, from) ==
  IF Key(agent, status, message) \in st.emitted
    THEN [st EXCEPT !.dropped = @ + 1]
    ELSE [st EXCEPT !.emitted = @ \cup {Key(agent, status, message)},
                    !.updates = Append(@, [agent |-> agent, status |-> status,
                                           message |-> message]),
                    !.origin  = Append(@, from)]

setDemoModeFlag(st, value) ==
  [st EXCEPT !.demoModeRef = value, !.demoMode = value]

(* ----------------------- fallback heuristics -------------------------- *)
\* The text simulateAgentUpdates reads: empty for an image and when
\* file.text() rejects.
FileContent(f, readOk) ==
  IF ~f.isImage /\ readOk
    THEN [hints |-> f.contentHints, totalMatch |-> f.totalMatch]
    ELSE [hints |-> {}, totalMatch |-> "none"]

isStarbucks(f, c) ==
  ("starbucks" \in f.nameHints) \/ ("STARBUCKS" \in c.hints) \/ ("Starbucks" \in c.hints)

isUber(f, c) ==
  ("uber" \in f.nameHints) \/ ("taxi" \in f.nameHints)
    \/ ("UBER" \in c.hints) \/ ("Uber" \in c.hints)

\* isBar without the test for WINE.
isBarNoWine(f, c) ==
  ("bar" \in f.nameHints) \/ ("alcohol" \in f.nameHints) \/ ("BAR" \in c.hints)
    \/ ("BEER" \in c.hints) \/ ("VODKA" \in c.hints) \/ ("Alcohol" \in c.hints)

isBar(f, c) ==
  ("bar" \in f.nameHints) \/ ("alcohol" \in f.nameHints) \/ ("BAR" \in c.hints)
    \/ ("WINE" \in c.hints) \/ ("BEER" \in c.hints) \/ ("VODKA" \in c.hints)
    \/ ("Alcohol" \in c.hints)

isStaples(f, c) ==
  ("staples" \in f.nameHints) \/ ("office" \in f.nameHints)
    \/ ("STAPLES" \in c.hints) \/ ("Staples" \in c.hints)

\* totalMatch[1].replace(',', ''): the first comma only.
StripComma(str) ==
  CASE str = "1,250.00" -> "1250.00"
    [] OTHER -> str

\* parseFloat of the amount strings in use, in cents.
parseFloatCents(str) ==
  CASE str = "0.00"    -> 0
    [] str = "25.55"   -> 2555
    [] str = "39.53"   -> 3953
    [] str = "93.74"   -> 9374
    [] str = "102.84"  -> 10284
    [] str = "45.00"   -> 4500
    [] str = "42.10"   -> 4210
    [] str = "35.00"   -> 3500
    [] str = "12.00"   -> 1200
    [] str = "30.00"   -> 3000
    [] str = "50.00"   -> 5000
    [] str = "60.00"   -> 6000
    [] str = "1250.00" -> 125000

\* Amount whose default for an image does not look at the merchant.
AmountOneDefault(f, c) ==
  IF c.totalMatch # "none" THEN StripComma(c.totalMatch)
  ELSE IF f.isImage THEN "45.00"
  ELSE "0.00"

Amount(f, c) ==
  IF c.totalMatch # "none" THEN StripComma(c.totalMatch)
  ELSE IF f.isImage THEN
    IF isStarbucks(f, c) THEN "25.55"
    ELSE IF isUber(f, c) THEN "39.53"
    ELSE IF isBar(f, c) THEN "93.74"
    ELSE IF isStaples(f, c) THEN "102.84"
    ELSE "45.00"
  ELSE "0.00"

\* The Starbucks branch with both limits inclusive.
starbucksPolicyResultInclusive(amount) ==
  IF parseFloatCents(amount) >= 5000 THEN "flagged"
  ELSE IF parseFloatCents(amount) <= 3000 THEN "approved"
  ELSE "review"

\* if (parseFloat(amount) > 50) ... else if (parseFloat(amount) < 30) ... else
starbucksPolicyResult(amount) ==
  IF parseFloatCents(amount) > 5000 THEN "flagged"
  ELSE IF parseFloatCents(amount) < 3000 THEN "approved"
  ELSE "review"

Classify(f, c) ==
  LET amount == Amount(f, c) IN
  IF isStarbucks(f, c) THEN
    [merchant |-> "Starbucks", category |-> "Meals & Refreshments", amount |-> amount,
     policyResult  |-> starbucksPolicyResult(amount),
     policyMessage |-> IF starbucksPolicyResult(amount) = "flagged"
                         THEN "Amount exceeds meal guideline ($50 limit). Requires manager approval."
                       ELSE IF starbucksPolicyResult(amount) = "approved"
                         THEN "Within team meal limit ($50). Business purpose documented. Citations: Policy 2.2"
                       ELSE "Borderline amount. Recommend adding attendee list for approval."]
  ELSE IF isUber(f, c) THEN
    [merchant |-> "Uber", category |-> "Transportation", amount |-> amount,
     policyResult  |-> "approved",
     policyMessage |-> "Within taxi limit ($75). Business purpose valid. Citations: Policy 3.1"]
  ELSE IF isBar(f, c) THEN
    [merchant |-> "Bar/Restaurant", category |-> "Meals", amount |-> amount,
     policyResult  |-> "rejected",
     policyMessage |-> "**POLICY VIOLATION** - Alcoholic beverages detected. Per Policy 6.1: Alcohol NOT reimbursable under any circumstances"]
  ELSE IF isStaples(f, c) THEN
    [merchant |-> "Staples", category |-> "Office Supplies", amount |-> amount,
     policyResult  |-> "approved",
     policyMessage |-> "Office supplies approved. Within $500 threshold. Citations: Policy 5.1"]
  ELSE
    [merchant |-> "Unknown", category |-> "General", amount |-> amount,
     policyResult  |-> "approved",
     policyMessage |-> "Compliant with company policy."]

\* Math.round in the place of Math.floor.
JittersRounded == 0..5

\* Math.floor(Math.random() * 5)
Jitters == 0..4

Step(agent, status, message) == [agent |-> agent, status |-> status, message |-> message]

\* The steps array of simulateAgentUpdates, in array order, which is also
\* the order of the delays and so the order in which the timers fire.
Steps(f, readOk, jitter) ==
  LET c == FileContent(f, readOk)
      k == Classify(f, c)
  IN <<
    Step("Extraction Agent", "processing",
         IF f.isImage THEN "Using Gemini 2.5 Flash Preview to analyze receipt image..."
                      ELSE "Processing receipt text with Gemini 2.5 Flash Preview..."),
    Step("Extraction Agent", "complete",
         (IF f.isImage THEN "Vision analysis complete: Merchant=" ELSE "Extracted: Merchant=")
           \o k.merchant \o ", Amount=$" \o k.amount \o ", Category=" \o k.category),
    Step("Policy Agent", "processing",
         "Checking compliance using ADK + Gemini 2.5 Flash-Lite Preview..."),
    Step("Policy Agent", "complete", k.policyMessage),
    Step("Anomaly Agent", "processing",
         "Scanning for duplicates, fraud patterns, suspicious amounts..."),
    Step("Anomaly Agent", "complete",
         IF isBar(f, c) THEN "High-risk category detected (alcohol). Flagged for review."
                        ELSE "No anomalies detected. Transaction appears legitimate."),
    Step("Remediation Agent", "processing", "Checking if any remediation needed..."),
    Step("Remediation Agent", "complete",
         IF k.policyResult = "rejected"
           THEN "Recommendation: Separate food items ($30) from alcohol ($42). Resubmit food portion only."
         ELSE IF k.policyResult = "review"
           THEN "Recommendation: Add meeting attendees list and agenda to support approval."
         ELSE "No issues found. Approved for reimbursement."),
    Step("Synthesis Agent", "processing",
         "Aggregating findings and generating final verdict..."),
    Step("Synthesis Agent", "complete",
         IF k.policyResult = "rejected"
           THEN "**REJECTED** - Policy violation detected. Amount: $" \o k.amount
                  \o ". Requires remediation."
         ELSE IF k.policyResult = "review"
           THEN "**NEEDS REVIEW** - Additional documentation required. Amount: $"
                  \o k.amount \o "."
         ELSE "**APPROVED** - All checks passed. Amount: $" \o k.amount
                  \o ". Confidence: " \o ToString(95 + jitter) \o "%")
  >>

\* The length of the steps array, the same for every file.
StepCount == Len(Steps(starbucksJpg, TRUE, 0))

\* step.agent === 'Synthesis Agent' && step.status === 'complete'
IsFinalStep(step) == step.agent = "Synthesis Agent" /\ step.status = "complete"


(* --------------------------- stream frames ---------------------------- *)
\* The data of one server-sent event after JSON.parse.  kind "malformed"
\* is a frame on which JSON.parse throws, or whose value is null so that
\* data.status throws.  payload tells whether findings holds the stage's
\* object: "absent", "present", or "throws" for an object on which building
\* the message raises a TypeError (needs_remediation set and
\* recommendations missing).
Json(status, error, finalStatus, payload, summary) ==
  [kind |-> "json", status |-> status, error |-> error,
   finalStatus |-> finalStatus, payload |-> payload, summary |-> summary]

Malformed ==
  [kind |-> "malformed", status |-> "", error |-> FALSE,
   finalStatus |-> "", payload |-> "absent", summary |-> FALSE]

Frames ==
  { Malformed,
    Json("TIMEOUT", FALSE, "", "absent", FALSE),
    Json("", TRUE, "", "absent", FALSE),
    Json("DONE", FALSE, "APPROVED", "absent", FALSE),
    Json("DONE", FALSE, "", "absent", FALSE),
    Json("INGESTED", FALSE, "", "absent", FALSE),
    Json("EXTRACTED", FALSE, "", "present", FALSE),
    Json("EXTRACTED", FALSE, "", "absent", FALSE),
    Json("EXTRACTION_FAILED", FALSE, "", "absent", FALSE),
    Json("POLICY_CHECKED", FALSE, "", "present", FALSE),
    Json("POLICY_CHECKED", FALSE, "", "absent", FALSE),
    Json("POLICY_CHECK_FAILED", FALSE, "", "absent", FALSE),
    Json("ANOMALY_CHECKED", FALSE, "", "present", FALSE),
    Json("ANOMALY_CHECKED", FALSE, "", "absent", FALSE),
    Json("ANOMALY_CHECK_FAILED", FALSE, "", "absent", FALSE),
    Json("REMEDIATION_COMPLETE", FALSE, "", "present", FALSE),
    Json("REMEDIATION_COMPLETE", FALSE, "", "absent", FALSE),
    Json("REMEDIATION_COMPLETE", FALSE, "", "throws", FALSE),
    Json("APPROVED", FALSE, "", "absent", FALSE),
    Json("REJECTED", FALSE, "", "absent", TRUE),
    Json("NEEDS_REVIEW", FALSE, "", "absent", FALSE),
    Json("FAILED", FALSE, "", "absent", FALSE),
    Json("QUEUED", FALSE, "", "absent", FALSE) }

FinalStatuses == {"APPROVED", "REJECTED", "NEEDS_REVIEW", "FAILED"}

(* ------------------- callbacks of startRealTimeStream ----------------- *)
\* The callbacks read and write the component's refs and state and their
\* own EventSource.  st is that state as one record: the fields of the
\* variables below, readyState of the callback's EventSource, and
\* simTimers, the pending setTimeout(simulateAgentUpdates, 500) calls.

close(st) == [st EXCEPT !.readyState = "CLOSED"]

setLoading(st, value) == [st EXCEPT !.loading = value]

\* markRealUpdate that forgets to record that a real update arrived.
markRealUpdateNoFlag(st) == setDemoModeFlag(st, FALSE)

\* markRealUpdate that passes true to setDemoModeFlag.
markRealUpdateSetsDemo(st) ==
  setDemoModeFlag([st EXCEPT !.hasRealUpdatesRef = TRUE], TRUE)

markRealUpdate(st) ==
  setDemoModeFlag([st EXCEPT !.hasRealUpdatesRef = TRUE], FALSE)

\* triggerDemoMode that starts the generator directly as well as through
\* the 500 ms timer.
triggerDemoModeTwice(st, message) ==
  IF st.hasRealUpdatesRef \/ st.demoModeRef
    THEN st
    ELSE [pushUpdate(setDemoModeFlag(st, TRUE), "System", "processing", message, "trigger")
            EXCEPT !.simTimers = @ + 2]

triggerDemoMode(st, message) ==
  IF st.hasRealUpdatesRef \/ st.demoModeRef
    THEN st
    ELSE [pushUpdate(setDemoModeFlag(st, TRUE), "System", "processing", message, "trigger")
            EXCEPT !.simTimers = @ + 1]

TimeoutMessage == "Agents processing... Showing preview based on receipt analysis."
ErrorMessage ==
  "Worker Pools queued. Showing intelligent simulation based on receipt content..."
WatchdogMessage == "Agents taking longer than expected. Showing preview while we wait."

SummaryText == "Expense rejected: alcohol is not reimbursable."

DefaultSummary(finalStatus) ==
  IF finalStatus = "APPROVED" THEN "All checks passed."
  ELSE IF finalStatus = "REJECTED" THEN "Policy violation detected."
  ELSE IF finalStatus = "NEEDS_REVIEW" THEN "Needs manual review."
  ELSE "Status: " \o finalStatus

\* handleFinalStatus that leaves the stream open.
handleFinalStatusNoClose(st, finalStatus, fr) ==
  setLoading(
    pushUpdate(markRealUpdate(st), "Synthesis Agent", "complete",
               IF fr.summary THEN SummaryText ELSE DefaultSummary(finalStatus),
               "stream"),
    FALSE)

\* handleFinalStatus without its setLoading(false).
handleFinalStatusKeepsLoading(st, finalStatus, fr) ==
  close(
    pushUpdate(markRealUpdate(st), "Synthesis Agent", "complete",
               IF fr.summary THEN SummaryText ELSE DefaultSummary(finalStatus),
               "stream"))

handleFinalStatus(st, finalStatus, fr) ==
  close(setLoading(
    pushUpdate(markRealUpdate(st), "Synthesis Agent", "complete",
               IF fr.summary THEN SummaryText ELSE DefaultSummary(finalStatus),
               "stream"),
    FALSE))

\* The TIMEOUT branch without its eventSource.close().
onTimeoutFrameNoClose(st) ==
  IF ~st.hasRealUpdatesRef THEN triggerDemoMode(st, TimeoutMessage) ELSE st

onTimeoutFrame(st) ==
  close(IF ~st.hasRealUpdatesRef THEN triggerDemoMode(st, TimeoutMessage) ELSE st)

BackendErrorMessage == "backend error"

\* The data.error branch without its eventSource.close().
onErrorFrameNoClose(st) ==
  setLoading(pushUpdate(st, "System", "error", BackendErrorMessage, "stream"), FALSE)

onErrorFrame(st) ==
  close(setLoading(pushUpdate(st, "System", "error", BackendErrorMessage, "stream"), FALSE))

ExtractionFailedMessage ==
  "Extraction failed. Please verify the receipt image quality and retry."
PolicyFailedMessage == "Policy evaluation failed. Please try again."
AnomalyFailedMessage == "Anomaly detection failed."

\* The failure branch that leaves the EventSource open.
failStageNoClose(st, agent, message) ==
  setLoading(pushUpdate(markRealUpdate(st), agent, "error", message, "stream"), FALSE)

\* The failure branch that leaves loading set.
failStageKeepsLoading(st, agent, message) ==
  close(pushUpdate(markRealUpdate(st), agent, "error", message, "stream"))

\* The branches of EXTRACTION_FAILED and POLICY_CHECK_FAILED:
\* markRealUpdate(), pushUpdate(agent, 'error', ...), setLoading(false),
\* eventSource.close().
failStage(st, agent, message) ==
  close(setLoading(
    pushUpdate(markRealUpdate(st), agent, "error", message, "stream"), FALSE))

\* The ANOMALY_CHECK_FAILED branch written like the other two failures.
onAnomalyCheckFailedFatal(st) ==
  failStage(st, "Anomaly Agent", AnomalyFailedMessage)

\* The ANOMALY_CHECK_FAILED branch: markRealUpdate(), pushUpdate, break.
onAnomalyCheckFailed(st) ==
  pushUpdate(markRealUpdate(st), "Anomaly Agent", "error", AnomalyFailedMessage, "stream")

IngestedMessage == "Receipt ingested. Agents spinning up..."
ExtractedMessage ==
  "Vision analysis complete: Merchant=Starbucks, Amount=$25.55, Category=Meals & Refreshments"
PolicyCheckedMessage == "Compliant with policy."
AnomalyCheckedMessage == "No anomalies detected."
RemediationMessage == "No remediation needed."

\* The stage branch with markRealUpdate() before the test of the payload.
onConditionalStageMarksFirst(st, fr, agent, message) ==
  IF fr.payload # "absent"
    THEN pushUpdate(markRealUpdate(st), agent, "complete", message, "stream")
    ELSE markRealUpdate(st)

\* The branches of EXTRACTED, POLICY_CHECKED and ANOMALY_CHECKED:
\* if (findings.<stage>) { markRealUpdate(); pushUpdate(agent, 'complete', ...) }
onConditionalStage(st, fr, agent, message) ==
  IF fr.payload # "absent"
    THEN pushUpdate(markRealUpdate(st), agent, "complete", message, "stream")
    ELSE st

\* The switch (status) of onmessage.
onStage(st, fr) ==
  CASE fr.status = "INGESTED" ->
         pushUpdate(markRealUpdate(st), "Orchestrator", "processing",
                    IngestedMessage, "stream")
    [] fr.status = "EXTRACTED" ->
         onConditionalStage(st, fr, "Extraction Agent", ExtractedMessage)
    [] fr.status = "EXTRACTION_FAILED" ->
         failStage(st, "Extraction Agent", ExtractionFailedMessage)
    [] fr.status = "POLICY_CHECKED" ->
         onConditionalStage(st, fr, "Policy Agent", PolicyCheckedMessage)
    [] fr.status = "POLICY_CHECK_FAILED" ->
         failStage(st, "Policy Agent", PolicyFailedMessage)
    [] fr.status = "ANOMALY_CHECKED" ->
         onConditionalStage(st, fr, "Anomaly Agent", AnomalyCheckedMessage)
    [] fr.status = "ANOMALY_CHECK_FAILED" ->
         onAnomalyCheckFailed(st)
    [] fr.status = "REMEDIATION_COMPLETE" ->
         IF fr.payload = "present"
           THEN pushUpdate(markRealUpdate(st), "Remediation Agent", "complete",
                           RemediationMessage, "stream")
         ELSE IF fr.payload = "throws"
           THEN markRealUpdate(st)      \* the TypeError is caught by onmessage
         ELSE st
    [] fr.status \in FinalStatuses -> handleFinalStatus(st, fr.status, fr)
    [] OTHER -> st

\* onmessage without the DONE test before the switch.
onmessageNoDone(st, fr) ==
  IF fr.kind = "malformed" THEN st
  ELSE IF fr.status = "TIMEOUT" THEN onTimeoutFrame(st)
  ELSE IF fr.error THEN onErrorFrame(st)
  ELSE onStage(st, fr)

\* onmessage that takes every DONE frame for a verdict, with or without a
\* finalStatus.
onmessageDoneAlways(st, fr) ==
  IF fr.kind = "malformed" THEN st
  ELSE IF fr.status = "TIMEOUT" THEN onTimeoutFrame(st)
  ELSE IF fr.error THEN onErrorFrame(st)
  ELSE IF fr.status = "DONE"
    THEN handleFinalStatus(st, fr.finalStatus, fr)
  ELSE onStage(st, fr)

onmessage(st, fr) ==
  IF fr.kind = "malformed" THEN st
  ELSE IF fr.status = "TIMEOUT" THEN onTimeoutFrame(st)
  ELSE IF fr.error THEN onErrorFrame(st)
  ELSE IF fr.status = "DONE" /\ fr.finalStatus # ""
    THEN handleFinalStatus(st, fr.finalStatus, fr)
  ELSE onStage(st, fr)

\* onerror that starts the fallback without closing the EventSource.
onerrorNoClose(st) ==
  IF st.hasRealUpdatesRef
    THEN close(st)
    ELSE triggerDemoMode(st, ErrorMessage)

\* onerror that also clears loading once a real update has been seen.
onerrorEndsLive(st) ==
  IF st.hasRealUpdatesRef
    THEN close(setLoading(st, FALSE))
    ELSE triggerDemoMode(close(st), ErrorMessage)

onerror(st) ==
  IF st.hasRealUpdatesRef
    THEN close(st)
    ELSE triggerDemoMode(close(st), ErrorMessage)

\* The watchdog callback that closes the stream and starts nothing.
watchdogTimeoutCloseOnly(st) ==
  IF st.readyState # "CLOSED" THEN close(st) ELSE st

\* The watchdog callback that starts the fallback and leaves the stream as
\* it is.
watchdogTimeoutNoClose(st) ==
  IF st.readyState # "CLOSED"
    THEN IF ~st.hasRealUpdatesRef THEN triggerDemoMode(st, WatchdogMessage) ELSE st
    ELSE st

\* The watchdog callback that closes the stream only when it starts the
\* fallback.
watchdogTimeoutLiveStaysOpen(st) ==
  IF st.readyState # "CLOSED" /\ ~st.hasRealUpdatesRef
    THEN close(triggerDemoMode(st, WatchdogMessage))
    ELSE st

watchdogTimeout(st) ==
  IF st.readyState # "CLOSED"
    THEN close(IF ~st.hasRealUpdatesRef THEN triggerDemoMode(st, WatchdogMessage) ELSE st)
    ELSE st


(* ------------------------------ state --------------------------------- *)
VARIABLES
  file,               \* useState: the selected document, NoFile for null
  loading,            \* useState
  expenseId,          \* useState, "null" for null
  updates,            \* useState: the log
  error,              \* useState, "null" for null
  demoMode,           \* useState
  demoModeRef,        \* useRef
  hasRealUpdatesRef,  \* useRef
  emittedUpdatesRef,  \* useRef: the set of keys already pushed
  origin,             \* origin[i]: which code pushed updates[i] (history)
  dropped,            \* pushUpdate calls that returned early (history)
  session,            \* number of submits accepted so far
  uploadPc,           \* "idle", or "fetching" while handleSubmit awaits fetch
  subFile,            \* subFile[s]: the file the callbacks of submit s close over
  es,                 \* es[s]: readyState of the EventSource of submit s
  watchdog,           \* watchdog[s]: the 30 s timer of submit s
  frames,             \* message events delivered so far
  simTimers,          \* simTimers[s]: pending setTimeout(simulateAgentUpdates, 500)
  simReading,         \* simReading[s]: simulateAgentUpdates calls awaiting file.text()
  simStarted,         \* simStarted[s]: simulateAgentUpdates calls so far (history)
  batches             \* batches[s]: the generators of submit s with step timers pending

vars == <<file, loading, expenseId, updates, error, demoMode, demoModeRef,
          hasRealUpdatesRef, emittedUpdatesRef, origin, dropped, session, uploadPc,
          subFile, es, watchdog, frames, simTimers, simReading, simStarted, batches>>

ExpenseId == "7f3a9c21-5d4e"
\* data.expenseId.substring(0, 8)
ExpenseIdPrefix == "7f3a9c21"

UploadErrors == {"Upload failed: Internal Server Error", "Failed to fetch"}

Init ==
  /\ file = NoFile
  /\ loading = FALSE
  /\ expenseId = "null"
  /\ updates = <<>>
  /\ error = "null"
  /\ demoMode = FALSE
  /\ demoModeRef = FALSE
  /\ hasRealUpdatesRef = FALSE
  /\ emittedUpdatesRef = {}
  /\ origin = <<>>
  /\ dropped = 0
  /\ session = 0
  /\ uploadPc = "idle"
  /\ subFile = [s \in Sessions |-> NoFile]
  /\ es = [s \in Sessions |-> "NONE"]
  /\ watchdog = [s \in Sessions |-> "none"]
  /\ frames = 0
  /\ simTimers = [s \in Sessions |-> 0]
  /\ simReading = [s \in Sessions |-> 0]
  /\ simStarted = [s \in Sessions |-> 0]
  /\ batches = [s \in Sessions |-> <<>>]

\* The state a callback of submit s runs on.
Cur(s) ==
  [updates |-> updates, emitted |-> emittedUpdatesRef, origin |-> origin,
   dropped |-> dropped,
   hasRealUpdatesRef |-> hasRealUpdatesRef, demoModeRef |-> demoModeRef,
   demoMode |-> demoMode, loading |-> loading,
   readyState |-> es[s], simTimers |-> simTimers[s]]

\* The state a callback of submit s leaves.
Commit(s, st) ==
  /\ updates' = st.updates
  /\ emittedUpdatesRef' = st.emitted
  /\ origin' = st.origin
  /\ dropped' = st.dropped
  /\ hasRealUpdatesRef' = st.hasRealUpdatesRef
  /\ demoModeRef' = st.demoModeRef
  /\ demoMode' = st.demoMode
  /\ loading' = st.loading
  /\ es' = [es EXCEPT ![s] = st.readyState]
  /\ simTimers' = [simTimers EXCEPT ![s] = st.simTimers]

(* ------------------------------ the user ------------------------------ *)
sessionVars == <<loading, updates, demoMode, demoModeRef, hasRealUpdatesRef,
                 emittedUpdatesRef, origin, dropped, es, simTimers>>
timerVars == <<watchdog, simReading, simStarted, batches>>

\* onChange of the file input, handleDrop
SelectFile(f) ==
  /\ file # f
  /\ file' = f
  /\ error' = "null"
  /\ UNCHANGED <<sessionVars, timerVars, expenseId, session, uploadPc, subFile, frames>>

\* the Remove button under the selected file's name
RemoveFile ==
  /\ file # NoFile
  /\ file' = NoFile
  /\ error' = "null"
  /\ UNCHANGED <<sessionVars, timerVars, expenseId, session, uploadPc, subFile, frames>>

\* "Upload Another Receipt", rendered when !loading && expenseId && updates.length > 0
UploadAnother ==
  /\ ~loading /\ expenseId # "null" /\ Len(updates) > 0
  /\ file' = NoFile
  /\ expenseId' = "null"
  /\ updates' = <<>>
  /\ origin' = <<>>
  /\ error' = "null"
  /\ UNCHANGED <<loading, demoMode, demoModeRef, hasRealUpdatesRef, emittedUpdatesRef,
                 dropped, es, simTimers, timerVars, session, uploadPc, subFile, frames>>

\* The submit button is disabled={!file || loading}.
SubmitEnabled == file # NoFile /\ ~loading

\* handleSubmit that goes on without a file.
handleSubmitReturnsNever(f) == FALSE

\* if (!file) return;
handleSubmitReturns(f) == f = NoFile

\* The reset that leaves the emitted set as the last submit left it.
handleSubmitResetKeepsEmitted(st) ==
  [st EXCEPT !.loading = TRUE, !.updates = <<>>, !.origin = <<>>,
             !.demoModeRef = FALSE, !.demoMode = FALSE,
             !.hasRealUpdatesRef = FALSE]

\* The reset of handleSubmit: setLoading(true), setUpdates([]),
\* setDemoModeFlag(false), hasRealUpdatesRef.current = false,
\* emittedUpdatesRef.current.clear(); setError(null) and setExpenseId(null)
\* are in HandleSubmit.
handleSubmitReset(st) ==
  [st EXCEPT !.loading = TRUE, !.updates = <<>>, !.origin = <<>>,
             !.demoModeRef = FALSE, !.demoMode = FALSE,
             !.hasRealUpdatesRef = FALSE, !.emitted = {}]

UploadingMessage == "Uploading receipt to Cloud Storage..."
UploadedMessage == "Receipt uploaded! Expense ID: " \o ExpenseIdPrefix \o "..."

\* handleSubmit that calls startRealTimeStream before its await fetch(...).
HandleSubmitStartsStream ==
  IF handleSubmitReturns(file)
    THEN UNCHANGED vars
    ELSE /\ session < MaxSessions
         /\ Commit(session + 1,
                   [pushUpdate(handleSubmitReset(Cur(session + 1)), "System", "processing",
                               UploadingMessage, "upload")
                      EXCEPT !.readyState = "CONNECTING"])
         /\ subFile' = [subFile EXCEPT ![session + 1] = file]
         /\ error' = "null"
         /\ expenseId' = "null"
         /\ session' = session + 1
         /\ uploadPc' = "fetching"
         /\ watchdog' = [watchdog EXCEPT ![session + 1] = "armed"]
         /\ UNCHANGED <<file, simReading, simStarted, batches, frames>>

\* handleSubmit up to its await fetch(...): the early return, or the reset
\* and the first push.
HandleSubmit ==
  IF handleSubmitReturns(file)
    THEN UNCHANGED vars
    ELSE /\ session < MaxSessions
         /\ Commit(session + 1,
                   pushUpdate(handleSubmitReset(Cur(session + 1)), "System", "processing",
                              UploadingMessage, "upload"))
         /\ subFile' = [subFile EXCEPT ![session + 1] = file]
         /\ error' = "null"
         /\ expenseId' = "null"
         /\ session' = session + 1
         /\ uploadPc' = "fetching"
         /\ UNCHANGED <<file, timerVars, frames>>

\* The form is submitted by its button.
Submit == SubmitEnabled /\ HandleSubmit

\* The form's submit event reaches handleSubmit while no file is selected
\* (the button is disabled then; the handler guards itself).
SubmitNoFile == file = NoFile /\ HandleSubmit

\* handleSubmit after fetch resolved with response.ok: the second push and
\* startRealTimeStream, which creates the EventSource and arms the watchdog.
UploadOk ==
  /\ uploadPc = "fetching"
  /\ LET st == pushUpdate(Cur(session), "Orchestrator", "complete",
                          UploadedMessage, "upload")
     IN Commit(session, [st EXCEPT !.readyState = "CONNECTING"])
  /\ expenseId' = ExpenseId
  /\ watchdog' = [watchdog EXCEPT ![session] = "armed"]
  /\ uploadPc' = "idle"
  /\ UNCHANGED <<file, error, session, subFile, frames, simReading, simStarted, batches>>

\* The catch block that leaves loading set.
handleSubmitCatchKeepsLoading(st, msg) ==
  pushUpdate(st, "System", "error", msg, "upload")

\* The catch block of handleSubmit: pushUpdate('System', 'error', ...) and
\* setLoading(false); setError is in UploadFail.
handleSubmitCatch(st, msg) ==
  setLoading(pushUpdate(st, "System", "error", msg, "upload"), FALSE)

\* handleSubmit's catch: fetch rejected or the response was not ok.
UploadFail(msg) ==
  /\ uploadPc = "fetching"
  /\ Commit(session, handleSubmitCatch(Cur(session), msg))
  /\ error' = msg
  /\ uploadPc' = "idle"
  /\ UNCHANGED <<file, expenseId, session, subFile, frames, timerVars>>

(* ----------------------------- the stream ----------------------------- *)
\* the EventSource's connection is established
StreamOpen(s) ==
  /\ es[s] = "CONNECTING"
  /\ es' = [es EXCEPT ![s] = "OPEN"]
  /\ UNCHANGED <<file, loading, expenseId, updates, error, demoMode, demoModeRef,
                 hasRealUpdatesRef, emittedUpdatesRef, origin, dropped, simTimers, timerVars,
                 session, uploadPc, subFile, frames>>

\* eventSource.onmessage on one frame; a closed EventSource dispatches none
OnMessage(s, fr) ==
  /\ es[s] = "OPEN"
  /\ frames < MaxFrames
  /\ Commit(s, onmessage(Cur(s), fr))
  /\ frames' = frames + 1
  /\ UNCHANGED <<file, expenseId, error, session, uploadPc, subFile, timerVars>>

\* eventSource.onerror: the connection failed or was lost
OnError(s) ==
  /\ es[s] \in {"CONNECTING", "OPEN"}
  /\ Commit(s, onerror(Cur(s)))
  /\ UNCHANGED <<file, expenseId, error, session, uploadPc, subFile, frames, timerVars>>

\* the setTimeout(..., 30000) of startRealTimeStream fires
Watchdog(s) ==
  /\ watchdog[s] = "armed"
  /\ Commit(s, watchdogTimeout(Cur(s)))
  /\ watchdog' = [watchdog EXCEPT ![s] = "fired"]
  /\ UNCHANGED <<file, expenseId, error, session, uploadPc, subFile, frames,
                 simReading, simStarted, batches>>

(* ---------------------------- the fallback ---------------------------- *)
\* Math.random() is evaluated only in the approved branch of the last step.
JittersFor(f, readOk) ==
  IF Classify(f, FileContent(f, readOk)).policyResult \in {"rejected", "review"}
    THEN {0}
    ELSE Jitters

NewBatch(readOk, jitter) == [readOk |-> readOk, jitter |-> jitter, next |-> 1]

\* The 500 ms timer fires: simulateAgentUpdates runs to its await for a
\* file that is not an image, and straight through to scheduling its
\* steps for an image.
SimulateStart(s) ==
  /\ simTimers[s] > 0
  /\ simTimers' = [simTimers EXCEPT ![s] = @ - 1]
  /\ simStarted' = [simStarted EXCEPT ![s] = @ + 1]
  /\ IF subFile[s].isImage
       THEN /\ \E j \in JittersFor(subFile[s], TRUE) :
                 batches' = [batches EXCEPT ![s] = Append(@, NewBatch(TRUE, j))]
            /\ UNCHANGED simReading
       ELSE /\ simReading' = [simReading EXCEPT ![s] = @ + 1]
            /\ UNCHANGED batches
  /\ UNCHANGED <<file, loading, expenseId, updates, error, demoMode, demoModeRef,
                 hasRealUpdatesRef, emittedUpdatesRef, origin, dropped, es, watchdog,
                 session, uploadPc, subFile, frames>>

\* file.text() settles (a rejection is caught and leaves the text empty)
\* and simulateAgentUpdates schedules its steps.
SimulateRead(s, readOk) ==
  /\ simReading[s] > 0
  /\ simReading' = [simReading EXCEPT ![s] = @ - 1]
  /\ \E j \in JittersFor(subFile[s], readOk) :
       batches' = [batches EXCEPT ![s] = Append(@, NewBatch(readOk, j))]
  /\ UNCHANGED <<file, loading, expenseId, updates, error, demoMode, demoModeRef,
                 hasRealUpdatesRef, emittedUpdatesRef, origin, dropped, es, watchdog, simTimers,
                 simStarted, session, uploadPc, subFile, frames>>

\* The step callback that tests the agent alone for the final step.
stepTimeoutAnySynthesis(st, step) ==
  IF step.agent = "Synthesis Agent"
    THEN setLoading(pushUpdate(st, step.agent, step.status, step.message, "step"), FALSE)
    ELSE pushUpdate(st, step.agent, step.status, step.message, "step")

\* The step callback that pushes nothing for a processing step.
stepTimeoutCompleteOnly(st, step) ==
  IF IsFinalStep(step)
    THEN setLoading(pushUpdate(st, step.agent, step.status, step.message, "step"), FALSE)
    ELSE IF step.status = "complete"
      THEN pushUpdate(st, step.agent, step.status, step.message, "step")
      ELSE st

\* The callback of one step timer.
stepTimeout(st, step) ==
  IF IsFinalStep(step)
    THEN setLoading(pushUpdate(st, step.agent, step.status, step.message, "step"), FALSE)
    ELSE pushUpdate(st, step.agent, step.status, step.message, "step")

RemoveAt(seq, i) == SubSeq(seq, 1, i - 1) \o SubSeq(seq, i + 1, Len(seq))

\* The next step timer of generator b of submit s fires; the timers of one
\* generator fire in the order of their delays, and a generator whose last
\* timer has fired has nothing pending.
SimulateStep(s, b) ==
  /\ b \in DOMAIN batches[s]
  /\ LET batch == batches[s][b]
         steps == Steps(subFile[s], batch.readOk, batch.jitter)
     IN /\ Commit(s, stepTimeout(Cur(s), steps[batch.next]))
        /\ batches' = [batches EXCEPT ![s] =
                         IF batch.next = Len(steps)
                           THEN RemoveAt(@, b)
                           ELSE [@ EXCEPT ![b].next = batch.next + 1]]
  /\ UNCHANGED <<file, expenseId, error, session, uploadPc, subFile, frames, watchdog,
                 simReading, simStarted>>

Next ==
  \/ \E f \in Files : SelectFile(f)
  \/ RemoveFile
  \/ UploadAnother
  \/ Submit
  \/ SubmitNoFile
  \/ UploadOk
  \/ \E msg \in UploadErrors : UploadFail(msg)
  \/ \E s \in Sessions : StreamOpen(s)
  \/ \E s \in Sessions, fr \in Frames : OnMessage(s, fr)
  \/ \E s \in Sessions : OnError(s)
  \/ \E s \in Sessions : Watchdog(s)
  \/ \E s \in Sessions : SimulateStart(s)
  \/ \E s \in Sessions, readOk \in BOOLEAN : SimulateRead(s, readOk)
  \/ \E s \in Sessions : \E b \in DOMAIN batches[s] : SimulateStep(s, b)

Spec == Init /\ [][Next]_vars

(* ------------------- the fallback on its own -------------------------- *)
\* The hint words simulateAgentUpdates looks for, one for each flag, in the
\* lower-cased name and in the text.
NameWords == {"starbucks", "uber", "bar", "staples"}
TextWords == {"STARBUCKS", "UBER", "WINE", "STAPLES"}

\* The sets of at most MaxHints of the words.
Few(words) == {h \in SUBSET words : Cardinality(h) <= MaxHints}

\* First captures of /Total[:\s]+\$?([\d,]+\.?\d*)/i in use.
Totals == {"12.00", "30.00", "42.10", "50.00", "60.00", "1,250.00"}

\* A line "Total: $42.10" that stands after the first match of the pattern
\* (after a "Subtotal: $30.00" line, which the pattern matches as well).
LaterTotal == "Total: $42.10"

ImageFiles ==
  { [kind |-> "file", isImage |-> TRUE, nameHints |-> n,
     contentHints |-> {}, totalMatch |-> "none"] : n \in Few(NameWords) }

TextFiles ==
  { [kind |-> "file", isImage |-> FALSE, nameHints |-> n,
     contentHints |-> h, totalMatch |-> t] :
       n \in Few(NameWords), h \in Few(TextWords), t \in Totals \cup {"none"} }
  \cup
  { [kind |-> "file", isImage |-> FALSE, nameHints |-> n,
     contentHints |-> h \cup {LaterTotal}, totalMatch |-> t] :
       n \in Few(NameWords), h \in Few(TextWords), t \in Totals \ {"42.10"} }

ReceiptFiles == ImageFiles \cup TextFiles

\* The state the watchdog leaves when it starts the fallback on a stream
\* that delivered nothing, for any receipt: the first session's upload
\* succeeded, the log holds the two upload entries and the watchdog's
\* message, the EventSource is closed and the 500 ms timer is pending.
FallbackInit ==
  /\ file \in ReceiptFiles
  /\ loading = TRUE
  /\ expenseId = ExpenseId
  /\ updates = << [agent |-> "System", status |-> "processing",
                   message |-> UploadingMessage],
                  [agent |-> "Orchestrator", status |-> "complete",
                   message |-> UploadedMessage],
                  [agent |-> "System", status |-> "processing",
                   message |-> WatchdogMessage] >>
  /\ error = "null"
  /\ demoMode = TRUE
  /\ demoModeRef = TRUE
  /\ hasRealUpdatesRef = FALSE
  /\ emittedUpdatesRef = { Key("System", "processing", UploadingMessage),
                           Key("Orchestrator", "complete", UploadedMessage),
                           Key("System", "processing", WatchdogMessage) }
  /\ origin = <<"upload", "upload", "trigger">>
  /\ dropped = 0
  /\ session = 1
  /\ uploadPc = "idle"
  /\ subFile = [s \in Sessions |-> IF s = 1 THEN file ELSE NoFile]
  /\ es = [s \in Sessions |-> IF s = 1 THEN "CLOSED" ELSE "NONE"]
  /\ watchdog = [s \in Sessions |-> IF s = 1 THEN "fired" ELSE "none"]
  /\ frames = 0
  /\ simTimers = [s \in Sessions |-> IF s = 1 THEN 1 ELSE 0]
  /\ simReading = [s \in Sessions |-> 0]
  /\ simStarted = [s \in Sessions |-> 0]
  /\ batches = [s \in Sessions |-> <<>>]

\* The callbacks of the fallback, the only ones pending from there.
FallbackNext ==
  \/ SimulateStart(session)
  \/ \E readOk \in BOOLEAN : SimulateRead(session, readOk)
  \/ \E b \in DOMAIN batches[session] : SimulateStep(session, b)

FallbackSpec == FallbackInit /\ [][FallbackNext]_vars

(* ---------------------- one stream on its own ------------------------- *)
\* The state startRealTimeStream leaves: the upload of the first submit
\* has succeeded, the log holds the two upload entries, the EventSource is
\* connecting and the watchdog is armed.
StreamInit ==
  /\ file \in Files
  /\ loading = TRUE
  /\ expenseId = ExpenseId
  /\ updates = << [agent |-> "System", status |-> "processing",
                   message |-> UploadingMessage],
                  [agent |-> "Orchestrator", status |-> "complete",
                   message |-> UploadedMessage] >>
  /\ error = "null"
  /\ demoMode = FALSE
  /\ demoModeRef = FALSE
  /\ hasRealUpdatesRef = FALSE
  /\ emittedUpdatesRef = { Key("System", "processing", UploadingMessage),
                           Key("Orchestrator", "complete", UploadedMessage) }
  /\ origin = <<"upload", "upload">>
  /\ dropped = 0
  /\ session = 1
  /\ uploadPc = "idle"
  /\ subFile = [s \in Sessions |-> IF s = 1 THEN file ELSE NoFile]
  /\ es = [s \in Sessions |-> IF s = 1 THEN "CONNECTING" ELSE "NONE"]
  /\ watchdog = [s \in Sessions |-> IF s = 1 THEN "armed" ELSE "none"]
  /\ frames = 0
  /\ simTimers = [s \in Sessions |-> 0]
  /\ simReading = [s \in Sessions |-> 0]
  /\ simStarted = [s \in Sessions |-> 0]
  /\ batches = [s \in Sessions |-> <<>>]

\* The callbacks of that stream and of the fallback it may start.
StreamNext ==
  \/ StreamOpen(session)
  \/ \E fr \in Frames : OnMessage(session, fr)
  \/ OnError(session)
  \/ Watchdog(session)
  \/ SimulateStart(session)
  \/ \E readOk \in BOOLEAN : SimulateRead(session, readOk)
  \/ \E b \in DOMAIN batches[session] : SimulateStep(session, b)

\* A timer that has been set fires: the 30 s callback of setTimeout runs
\* once its delay has passed, whatever else is queued.
StreamSpec ==
  StreamInit /\ [][StreamNext]_vars /\ \A s \in Sessions : WF_vars(Watchdog(s))

(* ============================ properties ============================== *)
Range(seq) == {seq[i] : i \in DOMAIN seq}

IsPrefix(a, b) == Len(a) <= Len(b) /\ SubSeq(b, 1, Len(a)) = a

\* The identity of a notification for deduplication.
Triple(u) == <<u.agent, u.status, u.message>>

NoDuplicateTriples(log) ==
  \A i, j \in DOMAIN log : Triple(log[i]) = Triple(log[j]) => i = j

\* The session's mode as section 3 of the specification names it.
Mode ==
  IF demoModeRef THEN "demo" ELSE IF hasRealUpdatesRef THEN "live" ELSE "none"

FallbackOrigins == {"trigger", "step"}

\* The step appended one entry, pushed by `from`.
Appended(from) ==
  /\ Len(updates') = Len(updates) + 1
  /\ origin'[Len(origin')] \in from

\* The session has been started and has cleared loading.
Terminal == session >= 1 /\ uploadPc = "idle" /\ ~loading

\* C1: within one session the log never holds two notifications with the
\* same (agent, status, message) triple; the entries already in the log
\* stay where they are, and a push of a triple pushed before is dropped
\* without changing the log.
C1_DedupFirstRetained ==
  [][ /\ NoDuplicateTriples(updates')
      /\ (session' = session /\ updates' # <<>> => IsPrefix(updates, updates'))
      /\ (dropped' > dropped => updates' = updates) ]_vars

\* A frame repeated a triple already in the log and was dropped.
C1_Witness ==
  /\ dropped > 0
  /\ \E i \in DOMAIN updates : origin[i] = "stream"

\* C2: once a real stage, verdict or explicit-error frame has been applied
\* in a session, no step appends a fallback notification (the trigger
\* message or a simulated step), whatever stall signals follow.
C2_ModeExclusivity ==
  [][ (session' = session /\ (hasRealUpdatesRef \/ "stream" \in Range(origin)))
        => ~Appended(FallbackOrigins) ]_vars

\* A real update landed, the session is still loading and the watchdog has
\* fired: the stall signal after the real update appended nothing.
C2_Witness ==
  /\ session >= 1 /\ hasRealUpdatesRef /\ loading
  /\ watchdog[session] = "fired"
  /\ "stream" \in Range(origin)
  /\ Range(origin) \cap FallbackOrigins = {}

\* C3: within a session the mode only leaves none, for live or for demo,
\* and once hasRealUpdatesRef is set demo mode is never set.
C3_ModeTransitions ==
  [][ session' = session
        => /\ (Mode' # Mode => Mode = "none")
           /\ (hasRealUpdatesRef => ~demoModeRef' /\ ~demoMode') ]_vars

\* Live, and the stream was closed by a TIMEOUT frame or a connection
\* error while the watchdog is still armed.
C3_Witness ==
  /\ session >= 1 /\ Mode = "live" /\ loading
  /\ es[session] = "CLOSED" /\ watchdog[session] = "armed"

\* C4: once the fallback has been triggered in a session, demo mode is never
\* cleared, the session never becomes live and no stream-derived
\* notification is appended.
C4_FallbackExclusive ==
  [][ (session' = session /\ demoModeRef)
        => /\ demoModeRef' /\ demoMode' /\ ~hasRealUpdatesRef'
           /\ ~Appended({"stream"}) ]_vars

\* The fallback was triggered by a connection error, the watchdog has fired
\* since, and the generator's steps are being appended.
C4_Witness ==
  /\ session >= 1 /\ demoModeRef /\ watchdog[session] = "fired"
  /\ \E i \in DOMAIN updates : updates[i].message = ErrorMessage
  /\ "step" \in Range(origin)

\* C5: in every session simulateAgentUpdates is started at most once,
\* counting the 500 ms timers still pending.
C5_SingleFallbackTrigger ==
  \A s \in Sessions : simStarted[s] + simTimers[s] <= 1

\* The generator ran after a TIMEOUT frame and the watchdog fired as well.
C5_Witness ==
  /\ session >= 1 /\ simStarted[session] = 1 /\ watchdog[session] = "fired"
  /\ \E i \in DOMAIN updates : updates[i].message = TimeoutMessage

\* C6: once a session is terminal it stays terminal, its mode does not
\* change and nothing is appended to its log.
C6_TerminalMonotonic ==
  [][ (Terminal /\ session' = session)
        => /\ Terminal'
           /\ Mode' = Mode
           /\ (updates' = updates \/ updates' = <<>>) ]_vars

\* A verdict frame made the session terminal and the watchdog fired
\* afterwards (had it fired before, the stream would have been closed and
\* the verdict never delivered).
C6_Witness ==
  /\ Terminal /\ Mode = "live" /\ watchdog[session] = "fired"
  /\ Len(updates) > 0 /\ updates[Len(updates)].agent = "Synthesis Agent"

\* Nothing of submit s can run any more: its stream is closed or was never
\* opened, its watchdog is not pending and no fallback timer or read is
\* pending.
NothingPending(s) ==
  /\ es[s] \in {"NONE", "CLOSED"}
  /\ watchdog[s] # "armed"
  /\ simTimers[s] = 0 /\ simReading[s] = 0 /\ batches[s] = <<>>

\* C7: no session hangs: a started session whose upload has resolved and
\* for which nothing is pending any more, the watchdog included, is
\* terminal.
C7_NoSessionHangs ==
  (session >= 1 /\ uploadPc = "idle" /\ NothingPending(session)) => ~loading

Last(seq) == seq[Len(seq)]

\* The log right after the watchdog started the fallback on a stream that
\* delivered nothing: the two upload entries and the watchdog's message.
WatchdogStartedFallback ==
  /\ loading /\ demoModeRef
  /\ Len(updates) = 3 /\ updates[3].message = WatchdogMessage

\* The fallback's ten steps are in the log, the last entry is the final
\* step and nothing of the fallback is pending.
FallbackComplete ==
  /\ Len(updates) > 0
  /\ IsFinalStep(Last(updates)) /\ Last(origin) = "step"
  /\ Cardinality({i \in DOMAIN origin : origin[i] = "step"}) = StepCount
  /\ simTimers[session] = 0 /\ simReading[session] = 0 /\ batches[session] = <<>>

RECURSIVE TimersLeft(_)
\* The step timers still pending in a sequence of generators.
TimersLeft(bs) ==
  IF bs = <<>> THEN 0
  ELSE (StepCount + 1 - Head(bs).next) + TimersLeft(Tail(bs))

\* The fallback callbacks submit s still owes: each pending 500 ms timer
\* stands for itself, a read and the step timers; each pending read for
\* itself and the step timers.
Remaining(s) ==
  (StepCount + 2) * simTimers[s]
    + (StepCount + 1) * simReading[s]
    + TimersLeft(batches[s])

\* A fallback callback of submit s runs in this step: the 500 ms timer, the
\* read or a step timer (a trigger only adds a 500 ms timer).
FallbackCallback(s) ==
  /\ <<simTimers[s], simReading[s], batches[s]>>'
       # <<simTimers[s], simReading[s], batches[s]>>
  /\ simTimers'[s] <= simTimers[s]

\* C8 (scenario E): when the watchdog fires on a stream that is not closed
\* and has delivered no real update, the fallback starts in that step.  From
\* then on, until the session is terminal, a fallback callback is pending and
\* every callback that runs leaves fewer pending, so the event loop brings
\* the session to its end; and the step that clears loading leaves the log
\* of thirteen entries with the watchdog's message third and the synthesized
\* verdict last.
C8_ScenarioE ==
  [][ /\ ( ( /\ session' = session /\ session >= 1
             /\ watchdog[session] = "armed" /\ watchdog'[session] = "fired"
             /\ es[session] # "CLOSED" /\ ~hasRealUpdatesRef )
           => ( /\ demoModeRef' /\ simTimers'[session] = 1 /\ es'[session] = "CLOSED"
                /\ Appended({"trigger"}) /\ WatchdogStartedFallback' ) )
      /\ ( ( /\ demoModeRef' /\ loading'
             /\ Len(updates') >= 3 /\ updates'[3].message = WatchdogMessage )
           => Remaining(session)' > 0 )
      /\ ( ( /\ demoModeRef /\ loading
             /\ updates[3].message = WatchdogMessage )
           => /\ session' = session
              /\ FallbackCallback(session) => Remaining(session)' < Remaining(session)
              /\ ~loading' => ( /\ Terminal' /\ FallbackComplete'
                                /\ Len(updates') = 13
                                /\ updates'[3].message = WatchdogMessage ) )
    ]_vars

\* The session the watchdog sent into the fallback has completed.
C8_Witness ==
  /\ Terminal /\ FallbackComplete
  /\ Len(updates) = 13 /\ updates[3].message = WatchdogMessage

\* A step timer fired in this step.
StepFired ==
  /\ batches' # batches
  /\ simTimers' = simTimers /\ simReading' = simReading

\* C9: once the fallback is triggered, a fallback callback stays pending
\* until the session is terminal, and every one that runs leaves fewer
\* pending, so the event loop brings the session to its end; every step
\* timer appends its notification, only the Synthesis Agent complete step
\* clears loading, and when loading is cleared all ten steps are in the log
\* with that step last.
C9_FallbackTerminates ==
  [][ /\ (demoModeRef' /\ loading' => Remaining(session)' > 0)
      /\ \A s \in Sessions : FallbackCallback(s) => Remaining(s)' < Remaining(s)
      /\ StepFired
           => /\ Appended({"step"})
              /\ (loading' # loading <=> IsFinalStep(Last(updates')))
              /\ (IsFinalStep(Last(updates')) => ~loading')
      /\ (demoModeRef /\ loading /\ ~loading') => (Terminal' /\ FallbackComplete')
    ]_vars

\* The fallback of a text file, started by a connection error, has run to
\* its final step.
C9_Witness ==
  /\ Terminal /\ FallbackComplete
  /\ ~subFile[session].isImage
  /\ updates[3].message = ErrorMessage

TimeoutFrame == Json("TIMEOUT", FALSE, "", "absent", FALSE)

\* One of the three stall signals of the current session is handled in
\* this step, on a stream that is not closed.
StallSignal ==
  \/ OnMessage(session, TimeoutFrame)
  \/ OnError(session)
  \/ (Watchdog(session) /\ es[session] # "CLOSED")

\* C10: a stall signal that is the first of its session, in which no real
\* notification has landed in the log, starts the fallback and closes the
\* stream, and appends a processing notification, never an error.
C10_StallStartsFallback ==
  [][ ( /\ session >= 1
        /\ StallSignal
        /\ ~demoModeRef
        /\ "stream" \notin Range(origin) )
      => ( /\ demoModeRef' /\ simTimers'[session] = simTimers[session] + 1
           /\ es'[session] = "CLOSED"
           /\ Appended({"trigger"})
           /\ Last(updates').status = "processing" ) ]_vars

Entry(agent, status, message) ==
  [agent |-> agent, status |-> status, message |-> message]

UploadingEntry == Entry("System", "processing", UploadingMessage)
UploadedEntry == Entry("Orchestrator", "complete", UploadedMessage)

\* The places of the log that hold the entry e.
Places(log, e) == {i \in DOMAIN log : log[i] = e}

\* The upload of the current session failed: the catch block's entry is in
\* the log.
UploadFailed ==
  \E i \in DOMAIN updates : origin[i] = "upload" /\ updates[i].status = "error"

\* C11 (scenario D): when the upload fails, by a response that is not ok or
\* by a rejected fetch, that step records the error, appends it as an
\* error notification and makes the session terminal; and for as long as the
\* failed session lasts the log holds the uploading entry and that one
\* error, no EventSource exists, the watchdog is not armed and nothing of
\* the fallback has been started.
C11_UploadFailure ==
  [][ /\ \A msg \in UploadErrors :
           UploadFail(msg)
             => /\ error' = msg
                /\ Appended({"upload"})
                /\ Last(updates') = Entry("System", "error", msg)
      /\ UploadFailed'
           => /\ Terminal'
              /\ Len(updates') = 2
              /\ Cardinality({i \in DOMAIN updates' : updates'[i].status = "error"}) = 1
              /\ expenseId' = "null"
              /\ es'[session'] = "NONE"
              /\ watchdog'[session'] = "none"
              /\ ~demoModeRef' /\ ~demoMode'
              /\ simTimers'[session'] = 0 /\ simStarted'[session'] = 0
              /\ simReading'[session'] = 0 /\ batches'[session'] = <<>>
    ]_vars

\* The second upload of the run was answered with status 500, and the user
\* has since removed the file.
C11_Witness ==
  /\ session = 2 /\ UploadFailed /\ Terminal /\ file = NoFile
  /\ Last(updates).message = "Upload failed: Internal Server Error"

\* C12: while the upload is awaited the log is the uploading entry alone;
\* a started session's log, until the user clears it, begins with that
\* entry; once the upload has succeeded the second entry is the upload
\* complete entry; and every entry pushed by a stream callback or by the
\* fallback stands after both.
C12_UploadEntriesFirst ==
  /\ uploadPc = "fetching" => (updates = <<UploadingEntry>> /\ origin = <<"upload">>)
  /\ loading => updates # <<>>
  /\ updates # <<>> => (updates[1] = UploadingEntry /\ origin[1] = "upload")
  /\ (updates # <<>> /\ expenseId # "null")
       => (Len(updates) >= 2 /\ updates[2] = UploadedEntry /\ origin[2] = "upload")
  /\ \A i \in DOMAIN origin :
       origin[i] # "upload"
         => (i >= 3 /\ updates[2] = UploadedEntry /\ expenseId # "null")

\* A log with the two upload entries, a stall message and steps of the
\* fallback behind them.
C12_Witness ==
  /\ Len(updates) >= 4
  /\ updates[1] = UploadingEntry /\ updates[2] = UploadedEntry
  /\ origin[3] = "trigger" /\ origin[4] = "step"

\* C13: the step that starts a session is a submit with a file selected,
\* and it leaves the log holding the uploading entry alone, the emitted set
\* holding that entry's key alone, both mode flags false, error and
\* expenseId null and loading set; from the second session on that key was
\* in the emitted set before the step, and the push is accepted all the
\* same.
C13_SubmitResets ==
  [][ session' # session
        => /\ file # NoFile
           /\ session' = session + 1
           /\ updates' = <<UploadingEntry>> /\ origin' = <<"upload">>
           /\ emittedUpdatesRef' = {Key("System", "processing", UploadingMessage)}
           /\ ~demoModeRef' /\ ~demoMode' /\ ~hasRealUpdatesRef'
           /\ error' = "null" /\ expenseId' = "null"
           /\ loading'
           /\ dropped' = dropped
           /\ (session >= 1
                 => Key("System", "processing", UploadingMessage) \in emittedUpdatesRef)
    ]_vars

\* The second session has been reset while the first one's verdict and
\* error were still on display.
C13_Witness ==
  /\ session = 2 /\ uploadPc = "fetching"
  /\ updates = <<UploadingEntry>>
  /\ emittedUpdatesRef = {Key("System", "processing", UploadingMessage)}
  /\ ~hasRealUpdatesRef /\ ~demoModeRef

\* A step of a handler other than handleSubmit.
OtherHandler ==
  \/ \E f \in Files : SelectFile(f)
  \/ RemoveFile
  \/ UploadAnother
  \/ UploadOk
  \/ \E msg \in UploadErrors : UploadFail(msg)
  \/ \E s \in Sessions : StreamOpen(s)
  \/ \E s \in Sessions, fr \in Frames : OnMessage(s, fr)
  \/ \E s \in Sessions : OnError(s)
  \/ \E s \in Sessions : Watchdog(s)
  \/ \E s \in Sessions : SimulateStart(s)
  \/ \E s \in Sessions, readOk \in BOOLEAN : SimulateRead(s, readOk)
  \/ \E s \in Sessions : \E b \in DOMAIN batches[s] : SimulateStep(s, b)

\* C14: while no file is selected, handleSubmit changes nothing: every step
\* that changes a variable is a step of another handler, no session is
\* started and no upload is issued.
C14_NoFileSubmitNoOp ==
  [][ file = NoFile
        => /\ OtherHandler
           /\ session' = session
           /\ (uploadPc' = "fetching" => uploadPc = "fetching") ]_vars

\* No file is selected and a finished live session is on display, all of
\* which a reset would wipe.
C14_Witness ==
  /\ file = NoFile /\ Terminal
  /\ hasRealUpdatesRef /\ expenseId # "null"
  /\ Len(updates) >= 3 /\ emittedUpdatesRef # {}

\* The step appended one entry at the end of the log, the entry of the key
\* that it added to the emitted set.
AppendedOne ==
  /\ Len(updates') = Len(updates) + 1
  /\ IsPrefix(updates, updates')
  /\ IsPrefix(origin, origin')
  /\ Key(Last(updates').agent, Last(updates').status, Last(updates').message)
       \notin emittedUpdatesRef
  /\ emittedUpdatesRef'
       = emittedUpdatesRef
           \cup {Key(Last(updates').agent, Last(updates').status, Last(updates').message)}

\* C15 as the specification states it: within a session every step leaves
\* the log as it is or appends one entry at its end.
C15_AppendOnly ==
  [][ session' = session => (updates' = updates \/ AppendedOne) ]_vars

\* C15: within a session every step leaves the log as it is, or appends at
\* its end the one entry whose key it adds to the emitted set, or is the
\* "Upload Another Receipt" button of a terminal session, which empties the
\* log and leaves the emitted set as it is.
C15_AppendOnlyUntilCleared ==
  [][ session' = session
        => \/ updates' = updates /\ emittedUpdatesRef' = emittedUpdatesRef
           \/ AppendedOne
           \/ /\ Terminal /\ expenseId # "null" /\ updates # <<>>
              /\ updates' = <<>> /\ expenseId' = "null" /\ file' = NoFile
              /\ emittedUpdatesRef' = emittedUpdatesRef
              /\ Terminal' ]_vars

\* The log of a finished session has been emptied by the button.
C15_Witness ==
  /\ session >= 1 /\ Terminal /\ updates = <<>> /\ expenseId = "null"
  /\ Cardinality(emittedUpdatesRef) >= 3

\* The frame fr is delivered to the EventSource of submit s in this step.
Delivered(s, fr) == frames' # frames /\ OnMessage(s, fr)

\* if (data.status === 'DONE' && data.finalStatus), and the four final
\* statuses of the switch; the error test comes first.
IsVerdict(fr) ==
  /\ fr.kind = "json" /\ fr.status # "TIMEOUT" /\ ~fr.error
  /\ \/ fr.status = "DONE" /\ fr.finalStatus # ""
     \/ fr.status \in FinalStatuses

VerdictFrames == {fr \in Frames : IsVerdict(fr)}

IsSynthesisComplete(u) == u.agent = "Synthesis Agent" /\ u.status = "complete"

\* C16: a verdict frame appends a Synthesis Agent complete notification,
\* the only one of the log, sets hasRealUpdatesRef, clears demo mode and
\* loading, and closes the EventSource.
C16_VerdictCompletes ==
  [][ \A s \in Sessions, fr \in VerdictFrames :
        Delivered(s, fr)
          => /\ Appended({"stream"})
             /\ IsSynthesisComplete(Last(updates'))
             /\ Cardinality({i \in DOMAIN updates' : IsSynthesisComplete(updates'[i])}) = 1
             /\ hasRealUpdatesRef' /\ ~demoModeRef' /\ Mode' = "live"
             /\ Terminal'
             /\ es'[s] = "CLOSED" ]_vars

\* A DONE frame with finalStatus APPROVED, or an APPROVED frame, ended the
\* session as the first frame of its stream.
C16_Witness ==
  /\ Terminal /\ Mode = "live" /\ Len(updates) = 3
  /\ updates[3] = Entry("Synthesis Agent", "complete", "All checks passed.")
  /\ origin[3] = "stream"
  /\ es[session] = "CLOSED"

ErrorFrame == Json("", TRUE, "", "absent", FALSE)
BackendErrorEntry == Entry("System", "error", BackendErrorMessage)

\* The error frame's entry is in the log.
BackendErrorLogged ==
  \E i \in Places(updates, BackendErrorEntry) : origin[i] = "stream"

\* C17: a frame with an error field appends the System error notification,
\* clears loading and closes the EventSource; and while that entry is in
\* the session's log no step appends anything, the session stays terminal
\* and nothing of the fallback is started.
C17_ErrorFrameEnds ==
  [][ /\ \A s \in Sessions :
           Delivered(s, ErrorFrame)
             => /\ Appended({"stream"})
                /\ Last(updates') = BackendErrorEntry
                /\ Cardinality(Places(updates', BackendErrorEntry)) = 1
                /\ Terminal'
                /\ es'[s] = "CLOSED"
      /\ (BackendErrorLogged /\ session' = session)
           => /\ (updates' = updates \/ updates' = <<>>)
              /\ Terminal'
              /\ ~demoModeRef'
              /\ es'[session] = "CLOSED"
              /\ simTimers' = simTimers /\ simStarted' = simStarted
              /\ simReading' = simReading /\ batches' = batches
    ]_vars

\* The error frame came before any real update, and the watchdog has fired
\* on the closed stream since.
C17_Witness ==
  /\ BackendErrorLogged /\ ~hasRealUpdatesRef
  /\ watchdog[session] = "fired"
  /\ Last(updates) = BackendErrorEntry

ExtractionFailedFrame == Json("EXTRACTION_FAILED", FALSE, "", "absent", FALSE)
ExtractionFailedEntry == Entry("Extraction Agent", "error", ExtractionFailedMessage)

\* C18: an EXTRACTION_FAILED frame appends the Extraction Agent error
\* notification, the only one of the log, sets hasRealUpdatesRef, clears
\* loading and closes the EventSource.
C18_ExtractionFailureEnds ==
  [][ \A s \in Sessions :
        Delivered(s, ExtractionFailedFrame)
          => /\ Appended({"stream"})
             /\ Last(updates') = ExtractionFailedEntry
             /\ Cardinality(Places(updates', ExtractionFailedEntry)) = 1
             /\ hasRealUpdatesRef' /\ Mode' = "live"
             /\ Terminal'
             /\ es'[s] = "CLOSED" ]_vars

\* The extraction failed after the receipt had been ingested.
C18_Witness ==
  /\ Terminal /\ Mode = "live" /\ es[session] = "CLOSED"
  /\ Len(updates) = 4
  /\ updates[3].agent = "Orchestrator" /\ origin[3] = "stream"
  /\ updates[4] = ExtractionFailedEntry

PolicyFailedFrame == Json("POLICY_CHECK_FAILED", FALSE, "", "absent", FALSE)
PolicyFailedEntry == Entry("Policy Agent", "error", PolicyFailedMessage)

\* C19 as the specification states it: a POLICY_CHECK_FAILED frame appends
\* the Policy Agent error notification and leaves loading set and the
\* EventSource open.
C19_PolicyFailureKeepsOpen ==
  [][ \A s \in Sessions :
        Delivered(s, PolicyFailedFrame)
          => /\ Appended({"stream"})
             /\ Last(updates') = PolicyFailedEntry
             /\ loading'
             /\ es'[s] = "OPEN" ]_vars

\* C19: a POLICY_CHECK_FAILED frame appends the Policy Agent error
\* notification, the only one of the log, sets hasRealUpdatesRef, clears
\* loading and closes the EventSource, as an EXTRACTION_FAILED frame does.
C19_PolicyFailureEnds ==
  [][ \A s \in Sessions :
        Delivered(s, PolicyFailedFrame)
          => /\ Appended({"stream"})
             /\ Last(updates') = PolicyFailedEntry
             /\ Cardinality(Places(updates', PolicyFailedEntry)) = 1
             /\ hasRealUpdatesRef' /\ Mode' = "live"
             /\ ~loading' /\ Terminal'
             /\ es'[s] = "CLOSED" ]_vars

\* The policy check failed after the extraction had been reported.
C19_Witness ==
  /\ Terminal /\ Mode = "live" /\ es[session] = "CLOSED"
  /\ Len(updates) = 4
  /\ updates[3].agent = "Extraction Agent" /\ updates[3].status = "complete"
  /\ updates[4] = PolicyFailedEntry

AnomalyFailedFrame == Json("ANOMALY_CHECK_FAILED", FALSE, "", "absent", FALSE)
AnomalyFailedEntry == Entry("Anomaly Agent", "error", AnomalyFailedMessage)

\* The state onmessage leaves is that of a session completed by a verdict,
\* with the Anomaly Agent error notification still in its log.
CompletedAfterAnomalyFailure(st) ==
  /\ ~st.loading /\ st.readyState = "CLOSED"
  /\ st.hasRealUpdatesRef /\ ~st.demoModeRef
  /\ IsSynthesisComplete(Last(st.updates)) /\ Last(st.origin) = "stream"
  /\ AnomalyFailedEntry \in Range(st.updates)

\* C20: wherever a frame can be delivered (the EventSource of submit s is
\* open), an ANOMALY_CHECK_FAILED frame sets hasRealUpdatesRef and leaves
\* loading set, as it was, and the EventSource open; the first one of a
\* session appends the Anomaly Agent error notification and a repeated one
\* is dropped, so that the log holds the notification once; and a verdict
\* frame delivered after it, at once or later, clears loading and closes
\* the EventSource with its Synthesis Agent notification last.
C20_AnomalyFailureKeepsOpen ==
  \A s \in Sessions :
    es[s] = "OPEN"
      => /\ loading
         /\ LET st == onmessage(Cur(s), AnomalyFailedFrame)
            IN /\ IF AnomalyFailedEntry \in Range(updates)
                    THEN st.updates = updates /\ st.dropped = dropped + 1
                    ELSE /\ st.updates = Append(updates, AnomalyFailedEntry)
                         /\ st.origin = Append(origin, "stream")
               /\ Cardinality(Places(st.updates, AnomalyFailedEntry)) = 1
               /\ st.hasRealUpdatesRef /\ ~st.demoModeRef
               /\ st.loading
               /\ st.readyState = "OPEN"
               /\ \A fr \in VerdictFrames :
                    CompletedAfterAnomalyFailure(onmessage(st, fr))
         /\ AnomalyFailedEntry \in Range(updates)
              => \A fr \in VerdictFrames :
                   CompletedAfterAnomalyFailure(onmessage(Cur(s), fr))

\* The anomaly check failed and a REJECTED frame with a summary completed
\* the session after it.
C20_Witness ==
  /\ Terminal /\ Mode = "live" /\ es[session] = "CLOSED"
  /\ Len(updates) = 4
  /\ updates[3] = AnomalyFailedEntry
  /\ updates[4] = Entry("Synthesis Agent", "complete", SummaryText)

\* The stage frames whose branch pushes a notification.
NotifyingStageFrames ==
  { Json("INGESTED", FALSE, "", "absent", FALSE),
    Json("EXTRACTED", FALSE, "", "present", FALSE),
    Json("POLICY_CHECKED", FALSE, "", "present", FALSE),
    Json("ANOMALY_CHECKED", FALSE, "", "present", FALSE),
    Json("REMEDIATION_COMPLETE", FALSE, "", "present", FALSE),
    ExtractionFailedFrame, PolicyFailedFrame, AnomalyFailedFrame }

\* The conditional stage frames whose findings lack the stage's object.
EmptyStageFrames ==
  { Json("EXTRACTED", FALSE, "", "absent", FALSE),
    Json("POLICY_CHECKED", FALSE, "", "absent", FALSE),
    Json("ANOMALY_CHECKED", FALSE, "", "absent", FALSE),
    Json("REMEDIATION_COMPLETE", FALSE, "", "absent", FALSE) }

\* The callback returned a state in which the fallback has just been
\* started from the state st.
StartsFallback(st, after) ==
  /\ after.demoModeRef /\ after.demoMode /\ ~after.hasRealUpdatesRef
  /\ after.simTimers = st.simTimers + 1
  /\ after.readyState = "CLOSED"
  /\ Len(after.updates) = Len(st.updates) + 1
  /\ Last(after.origin) = "trigger"

\* C21: wherever a frame can be delivered, a stage frame whose branch pushes
\* a notification leaves hasRealUpdatesRef set and demo mode clear, and
\* appends its notification if no real update had been seen before,
\* whichever stage it is; and a conditional stage frame without its payload
\* leaves the state as it is, so that, if no real update has been seen, each
\* of the three stall signals that may follow starts the fallback.
C21_StageMarksLive ==
  \A s \in Sessions :
    es[s] = "OPEN"
      => /\ \A fr \in NotifyingStageFrames :
              LET st == onmessage(Cur(s), fr)
              IN /\ st.hasRealUpdatesRef /\ ~st.demoModeRef /\ ~st.demoMode
                 /\ \/ /\ Len(st.updates) = Len(updates) + 1
                       /\ IsPrefix(updates, st.updates)
                       /\ Last(st.origin) = "stream"
                    \/ /\ hasRealUpdatesRef
                       /\ st.updates = updates /\ st.dropped = dropped + 1
         /\ \A fr \in EmptyStageFrames :
              LET st == onmessage(Cur(s), fr)
              IN /\ st = Cur(s)
                 /\ ~hasRealUpdatesRef
                      => /\ StartsFallback(st, onmessage(st, TimeoutFrame))
                         /\ StartsFallback(st, onerror(st))
                         /\ StartsFallback(st, watchdogTimeout(st))

\* Of two frames delivered, one left no trace and the other, a
\* POLICY_CHECKED frame with its payload, was the first real update of the
\* session.
C21_Witness ==
  /\ frames = 2 /\ session = 1 /\ Mode = "live" /\ loading
  /\ Len(updates) = 3
  /\ updates[3] = Entry("Policy Agent", "complete", PolicyCheckedMessage)
  /\ es[session] = "OPEN"

IngestedEntry == Entry("Orchestrator", "processing", IngestedMessage)
ApprovedEntry == Entry("Synthesis Agent", "complete", DefaultSummary("APPROVED"))

ApprovedFrames ==
  { Json("DONE", FALSE, "APPROVED", "absent", FALSE),
    Json("APPROVED", FALSE, "", "absent", FALSE) }

\* The log of scenario C: INGESTED and then the APPROVED verdict were the
\* first two notifications of the stream.
ScenarioCLog ==
  /\ Len(updates) >= 4
  /\ updates[3] = IngestedEntry /\ origin[3] = "stream"
  /\ updates[4] = ApprovedEntry /\ origin[4] = "stream"

\* C22 (scenario C): when INGESTED has been the stream's only notification,
\* a verdict frame with final status APPROVED leaves the log with the two
\* upload entries, the Orchestrator entry and the Synthesis Agent entry,
\* loading cleared and the EventSource closed; and for as long as that log
\* is on display it has these four entries, the mode is live, the session
\* is terminal and nothing of the fallback has been started.
C22_ScenarioC ==
  /\ \A s \in Sessions :
       (es[s] = "OPEN" /\ updates = <<UploadingEntry, UploadedEntry, IngestedEntry>>)
         => \A fr \in ApprovedFrames :
              LET st == onmessage(Cur(s), fr)
              IN /\ st.updates = Append(updates, ApprovedEntry)
                 /\ st.origin = <<"upload", "upload", "stream", "stream">>
                 /\ ~st.loading /\ st.readyState = "CLOSED"
                 /\ st.hasRealUpdatesRef /\ ~st.demoModeRef
  /\ ScenarioCLog
       => /\ updates = <<UploadingEntry, UploadedEntry, IngestedEntry, ApprovedEntry>>
          /\ Mode = "live" /\ ~demoMode
          /\ Terminal
          /\ es[session] = "CLOSED"
          /\ simTimers[session] = 0 /\ simStarted[session] = 0
          /\ simReading[session] = 0 /\ batches[session] = <<>>
          /\ Range(origin) \cap FallbackOrigins = {}

\* Scenario C has run and the watchdog has fired after it.
C22_Witness ==
  /\ ScenarioCLog /\ Terminal /\ watchdog[session] = "fired"

RemediationThrowsFrame == Json("REMEDIATION_COMPLETE", FALSE, "", "throws", FALSE)

\* C23: wherever a frame can be delivered, a frame that cannot be parsed,
\* and a frame whose handling raises an exception, leave the log, the mode
\* flags, loading and the EventSource as they are.
C23_ExceptionsChangeNothing ==
  \A s \in Sessions :
    es[s] = "OPEN"
      => \A fr \in {Malformed, RemediationThrowsFrame} :
           onmessage(Cur(s), fr) = Cur(s)

(* ------------------------ the fallback's output ----------------------- *)
\* The entries of the log pushed by step timers, in log order.
StepLog ==
  LET idx == {i \in DOMAIN origin : origin[i] = "step"}
  IN [k \in 1..Cardinality(idx) |->
        updates[CHOOSE i \in idx : Cardinality({j \in idx : j < i}) = k - 1]]

\* The agent and status of each entry of a log.
Stages(log) == [k \in DOMAIN log |-> <<log[k].agent, log[k].status>>]

NineStepTimeline ==
  << <<"Extraction Agent", "processing">>, <<"Extraction Agent", "complete">>,
     <<"Policy Agent", "processing">>, <<"Policy Agent", "complete">>,
     <<"Anomaly Agent", "processing">>, <<"Anomaly Agent", "complete">>,
     <<"Remediation Agent", "processing">>, <<"Remediation Agent", "complete">>,
     <<"Synthesis Agent", "complete">> >>

TenStepTimeline ==
  << <<"Extraction Agent", "processing">>, <<"Extraction Agent", "complete">>,
     <<"Policy Agent", "processing">>, <<"Policy Agent", "complete">>,
     <<"Anomaly Agent", "processing">>, <<"Anomaly Agent", "complete">>,
     <<"Remediation Agent", "processing">>, <<"Remediation Agent", "complete">>,
     <<"Synthesis Agent", "processing">>, <<"Synthesis Agent", "complete">> >>

\* The fallback appended the steps of timeline, in its order, behind the
\* trigger message and nothing else, and all of them once it is terminal
\* (and its log has not been emptied by the user).
FollowsTimeline(timeline) ==
  /\ IsPrefix(Stages(StepLog), timeline)
  /\ \A i \in DOMAIN origin :
       /\ origin[i] = "trigger" => origin = SubSeq(origin, 1, i) \o [k \in 1..(Len(origin) - i) |-> "step"]
       /\ origin[i] = "step" => "trigger" \in Range(SubSeq(origin, 1, i))
  /\ (demoModeRef /\ Terminal /\ updates # <<>>) => Stages(StepLog) = timeline

\* C24 as the specification states it: the fallback appends the nine steps
\* in order, and nothing else.
C24_NineSteps == FollowsTimeline(NineStepTimeline)

\* C24: the fallback appends ten steps in order behind the trigger message,
\* the nine of the specification with synthesis-processing before
\* synthesis-complete, and nothing else.
C24_TenSteps == FollowsTimeline(TenStepTimeline)

\* The fallback has run to its end with all ten steps in the log.
C24_Witness ==
  /\ demoModeRef /\ Terminal
  /\ Len(StepLog) = 10
  /\ StepLog[9] = Entry("Synthesis Agent", "processing",
                        "Aggregating findings and generating final verdict...")

\* The amounts the fallback can print.
AmountStrings ==
  {"0.00", "25.55", "39.53", "93.74", "102.84", "45.00"}
    \cup {StripComma(t) : t \in Totals}

ConfidenceText(n) == ". Confidence: " \o ToString(n) \o "%"

ApprovedText(amount) == "**APPROVED** - All checks passed. Amount: $" \o amount
RejectedText(amount) ==
  "**REJECTED** - Policy violation detected. Amount: $" \o amount
    \o ". Requires remediation."
ReviewText(amount) ==
  "**NEEDS REVIEW** - Additional documentation required. Amount: $" \o amount \o "."

\* The approved verdicts for an amount with a confidence between lo and hi.
ApprovedMessages(amount, lo, hi) ==
  {ApprovedText(amount) \o ConfidenceText(n) : n \in lo..hi}

\* The file of the running session.
RunFile == subFile[session]

\* C25 (scenario A): when the fallback of an image whose name contains
\* starbucks has completed, the log holds the extraction-complete
\* notification with merchant Starbucks, amount 25.55 and category Meals &
\* Refreshments, and its last entry is the APPROVED verdict for 25.55,
\* whatever other hint words the name holds.
C25_ScenarioA ==
  (demoModeRef /\ Terminal /\ RunFile.isImage /\ "starbucks" \in RunFile.nameHints)
    => /\ Entry("Extraction Agent", "complete",
                "Vision analysis complete: Merchant=Starbucks, Amount=$25.55, Category=Meals & Refreshments")
            \in Range(StepLog)
       /\ Last(updates).agent = "Synthesis Agent" /\ Last(updates).status = "complete"
       /\ Last(updates).message \in ApprovedMessages("25.55", 95, 99)

\* The fallback of an image named after Starbucks and a bar has completed.
C25_Witness ==
  /\ demoModeRef /\ Terminal /\ RunFile.isImage
  /\ RunFile.nameHints = {"starbucks", "bar"}
  /\ Len(StepLog) = StepCount

\* The text of f holds the line "Total: $42.10" and the word WINE.
IsWineReceipt(f) ==
  /\ ~f.isImage /\ "WINE" \in f.contentHints
  /\ (f.totalMatch = "42.10" \/ LaterTotal \in f.contentHints)

\* The log of scenario B's outcome.
ScenarioBLog ==
  /\ Entry("Extraction Agent", "complete",
           "Extracted: Merchant=Bar/Restaurant, Amount=$42.10, Category=Meals")
       \in Range(StepLog)
  /\ Entry("Policy Agent", "complete",
           "**POLICY VIOLATION** - Alcoholic beverages detected. Per Policy 6.1: Alcohol NOT reimbursable under any circumstances")
       \in Range(StepLog)
  /\ Last(updates) = Entry("Synthesis Agent", "complete", RejectedText("42.10"))

\* C26 as the specification states it: the completed fallback of any text
\* file with "Total: $42.10" and WINE shows Bar/Restaurant, 42.10 and the
\* REJECTED verdict.
C26_ScenarioBAnyFile ==
  (demoModeRef /\ Terminal /\ IsWineReceipt(RunFile)) => ScenarioBLog

\* The only generator of the session fires its last step timer.
FinalStepFires ==
  /\ loading /\ ~loading'
  /\ Len(batches[session]) = 1 /\ batches[session][1].next = StepCount

\* What that generator read and how it classified the file.
RunContent == FileContent(RunFile, batches[session][1].readOk)
RunClass == Classify(RunFile, RunContent)

\* C26: the fallback of a text file that was read, whose first match of
\* the Total pattern is 42.10, whose text holds WINE and whose name and text
\* hold no hint of Starbucks or Uber, completes with Bar/Restaurant, 42.10
\* and the REJECTED verdict citing the alcohol policy, whatever other hints
\* of a bar or of Staples the file holds.
C26_ScenarioB ==
  [][ ( /\ FinalStepFires
        /\ ~RunFile.isImage /\ batches[session][1].readOk
        /\ "WINE" \in RunFile.contentHints /\ RunFile.totalMatch = "42.10"
        /\ ~isStarbucks(RunFile, RunContent) /\ ~isUber(RunFile, RunContent) )
      => (Terminal' /\ ScenarioBLog') ]_vars

\* The fallback of a wine receipt whose name and text also hint at Staples
\* has completed with the REJECTED verdict.
C26_Witness ==
  /\ demoModeRef /\ Terminal /\ IsWineReceipt(RunFile)
  /\ RunFile.nameHints = {"staples"} /\ RunFile.contentHints = {"WINE", "STAPLES"}
  /\ ScenarioBLog

\* The amount as the specification gives it: the matched number, or else
\* the default of the category, or 45.00 for an unclassified file.
SpecAmount(f, c) ==
  IF c.totalMatch # "none" THEN StripComma(c.totalMatch)
  ELSE IF isStarbucks(f, c) THEN "25.55"
  ELSE IF isUber(f, c) THEN "39.53"
  ELSE IF isBar(f, c) THEN "93.74"
  ELSE IF isStaples(f, c) THEN "102.84"
  ELSE "45.00"

\* C27: the extraction-complete notification of the fallback prints the
\* matched number if the text has a Total match, and else the default of
\* the category, for an image and for a text file alike.
C27_AmountDefaults ==
  \A b \in DOMAIN batches[session] :
    batches[session][b].next > 2
      => LET c == FileContent(RunFile, batches[session][b].readOk)
             k == Classify(RunFile, c)
         IN Entry("Extraction Agent", "complete",
                  (IF RunFile.isImage THEN "Vision analysis complete: Merchant="
                                      ELSE "Extracted: Merchant=")
                    \o k.merchant \o ", Amount=$" \o SpecAmount(RunFile, c)
                    \o ", Category=" \o k.category)
              \in Range(StepLog)

Merchants == {"Starbucks", "Uber", "Bar/Restaurant", "Staples", "Unknown"}

\* The policy verdicts and messages the receipts of each category get.
CategoryVerdicts ==
  [m \in Merchants |->
     { <<Classify(f, FileContent(f, r)).policyResult,
         Classify(f, FileContent(f, r)).policyMessage>> :
         <<f, r>> \in {x \in ReceiptFiles \X BOOLEAN :
                         Classify(x[1], FileContent(x[1], x[2])).merchant = m} }]

\* The policy-complete notification is in the log and is the one verdict
\* message of the category of the file.
PolicyLoggedFrom(verdicts) ==
  /\ Cardinality(verdicts) = 1
  /\ \E v \in verdicts : Entry("Policy Agent", "complete", v[2]) \in Range(StepLog)

\* C29 as the specification states it: every category has one policy
\* verdict and message, which the fallback prints for every file of the
\* category.
C29_VerdictPerCategory ==
  \A b \in DOMAIN batches[session] :
    batches[session][b].next > 4
      => PolicyLoggedFrom(
           CategoryVerdicts[Classify(RunFile,
                                     FileContent(RunFile, batches[session][b].readOk)).merchant])

\* C29: the categories Uber, Bar/Restaurant, Staples and Unknown have one
\* policy verdict and message each, which the fallback prints for every
\* file of the category; for Starbucks the verdict follows the amount:
\* flagged above 50, approved below 30 and review from 30 to 50.
C29_VerdictPerCategoryOrAmount ==
  \A b \in DOMAIN batches[session] :
    batches[session][b].next > 4
      => LET k == Classify(RunFile, FileContent(RunFile, batches[session][b].readOk))
         IN IF k.merchant # "Starbucks"
              THEN PolicyLoggedFrom(CategoryVerdicts[k.merchant])
              ELSE /\ k.policyResult
                        = (IF k.amount \in {"60.00", "1250.00"} THEN "flagged"
                           ELSE IF k.amount \in {"0.00", "12.00", "25.55"} THEN "approved"
                           ELSE "review")
                   /\ k.amount \in {"30.00", "42.10", "50.00"} => k.policyResult = "review"
                   /\ Entry("Policy Agent", "complete", k.policyMessage) \in Range(StepLog)
                   /\ \A v \in CategoryVerdicts["Starbucks"] :
                        v[1] = k.policyResult => v[2] = k.policyMessage

\* A Starbucks text receipt of exactly 50.00 has had its policy verdict
\* printed: review.
C29_Witness ==
  /\ Len(batches[session]) = 1 /\ batches[session][1].next > 4
  /\ RunClass.merchant = "Starbucks" /\ RunClass.amount = "50.00"
  /\ RunClass.policyResult = "review"

\* The final messages that end in a confidence percentage from lo to hi,
\* whatever the verdict.
ConfidentMessages(lo, hi) ==
  UNION { { ApprovedText(a) \o ConfidenceText(n),
            RejectedText(a) \o " Confidence: " \o ToString(n) \o "%",
            ReviewText(a) \o " Confidence: " \o ToString(n) \o "%" } :
          <<a, n>> \in AmountStrings \X (lo..hi) }

ConfidentFrom95To99 == ConfidentMessages(95, 99)

\* C30 as the specification states it: the last message of a completed
\* fallback ends in a confidence percentage from 95 to 99.
C30_ConfidenceAlways ==
  (demoModeRef /\ Terminal) => Last(updates).message \in ConfidentFrom95To99

\* C30: the final step's message ends in a confidence percentage, an
\* integer from 95 to 99, when the policy verdict is neither rejected nor
\* review; the REJECTED and NEEDS REVIEW messages carry no confidence.
C30_ConfidenceWhenApproved ==
  [][ FinalStepFires
        => /\ Last(updates').agent = "Synthesis Agent"
           /\ IF RunClass.policyResult = "rejected"
                THEN Last(updates').message = RejectedText(RunClass.amount)
              ELSE IF RunClass.policyResult = "review"
                THEN Last(updates').message = ReviewText(RunClass.amount)
              ELSE Last(updates').message \in ApprovedMessages(RunClass.amount, 95, 99)
    ]_vars

\* An approved fallback has completed with the highest confidence.
C30_Witness ==
  /\ demoModeRef /\ Terminal
  /\ \E a \in AmountStrings :
       Last(updates).message = ApprovedText(a) \o ConfidenceText(99)

\* Well-formed frames with no error field whose status the switch does not
\* name: a DONE frame without finalStatus, a status the backend might add,
\* no status at all, and an unknown status that carries findings.
IgnoredFrames ==
  { Json("DONE", FALSE, "", "absent", FALSE),
    Json("DONE", FALSE, "", "present", TRUE),
    Json("QUEUED", FALSE, "", "absent", FALSE),
    Json("QUEUED", FALSE, "", "present", TRUE),
    Json("", FALSE, "", "absent", FALSE) }

\* C31: wherever a frame can be delivered, a well-formed frame with no error
\* field whose status is not a recognized one, a DONE frame without
\* finalStatus included, leaves the log, the mode flags, loading and the
\* stream as they are.
C31_UnknownStatusIgnored ==
  \A s \in Sessions :
    es[s] = "OPEN"
      => \A fr \in IgnoredFrames : onmessage(Cur(s), fr) = Cur(s)

\* Two frames were delivered and left no trace: the session is still
\* loading with its stream open, no mode, and the two upload entries alone.
C31_Witness ==
  /\ frames = 2 /\ session = 1 /\ es[1] = "OPEN" /\ loading
  /\ Mode = "none" /\ Len(updates) = 2 /\ dropped = 0

\* C32: hasRealUpdatesRef and the demo flag, the ref or the state, are
\* never both set.
C32_FlagsExclusive ==
  ~(hasRealUpdatesRef /\ (demoModeRef \/ demoMode))

\* The second session is live after a first one that ended in the fallback:
\* markRealUpdate ran on flags the reset had cleared.
C32_Witness ==
  /\ session = 2 /\ hasRealUpdatesRef /\ ~demoModeRef
  /\ simStarted[1] = 1

\* Submit s has a fallback callback pending.
FallbackPending(s) ==
  simTimers[s] > 0 \/ simReading[s] > 0 \/ batches[s] # <<>>

\* C33: in demo mode the stream of the session is closed; the step that
\* starts a fallback leaves the stream of its session closed; the stream is
\* closed when a simulated step is appended; and no frame is handled while a
\* fallback callback is pending.
C33_DemoStreamClosed ==
  [][ /\ (demoModeRef' => session' >= 1 /\ es'[session'] = "CLOSED")
      /\ \A s \in Sessions : simTimers'[s] > simTimers[s] => es'[s] = "CLOSED"
      /\ (Appended({"step"}) => es[session] = "CLOSED")
      /\ ((\E s \in Sessions : FallbackPending(s)) => frames' = frames) ]_vars

\* A TIMEOUT frame started the fallback, whose steps are being appended on
\* a closed stream while the watchdog is still armed.
C33_Witness ==
  /\ session >= 1 /\ demoModeRef /\ es[session] = "CLOSED"
  /\ watchdog[session] = "armed"
  /\ Len(updates) > 3 /\ updates[3].message = TimeoutMessage
  /\ batches[session] # <<>>

\* C34: a started session that is terminal has its stream closed or never
\* opened, and every step that clears loading after the upload leaves the
\* stream of the session closed, and no stream open or connecting.
C34_TerminalStreamClosed ==
  [][ /\ (Terminal' => es'[session'] \in {"NONE", "CLOSED"})
      /\ (loading /\ ~loading' /\ uploadPc = "idle")
           => /\ es'[session] = "CLOSED"
              /\ \A s \in Sessions : es'[s] \in {"NONE", "CLOSED"} ]_vars

\* A verdict frame ended a live session: loading is clear and the stream
\* closed while the watchdog is still armed.
C34_Witness ==
  /\ Terminal /\ Mode = "live" /\ es[session] = "CLOSED"
  /\ watchdog[session] = "armed"
  /\ Last(updates).agent = "Synthesis Agent"

\* C35: the EventSource of a submit is created once, in the step in which
\* its upload resolves, the step that appends the upload-complete
\* notification and arms the watchdog, which is armed at no other time;
\* while the upload is pending the session has neither stream nor watchdog,
\* so none of their callbacks can run.
C35_StreamAfterUpload ==
  [][ /\ \A s \in Sessions :
           /\ (es[s] = "NONE" /\ es'[s] # "NONE")
                => /\ s = session /\ uploadPc = "fetching" /\ uploadPc' = "idle"
                   /\ es'[s] = "CONNECTING"
                   /\ watchdog[s] = "none" /\ watchdog'[s] = "armed"
                   /\ Len(updates') = 2 /\ updates'[2] = UploadedEntry
           /\ (es[s] # "NONE" => es'[s] \notin {"NONE", "CONNECTING"} \/ es'[s] = es[s])
           /\ (watchdog'[s] = "armed" /\ watchdog[s] # "armed")
                => (watchdog[s] = "none" /\ es[s] = "NONE" /\ es'[s] = "CONNECTING")
           /\ (watchdog[s] # "none" => watchdog'[s] # "none")
      /\ (uploadPc' = "fetching"
            => /\ es'[session'] = "NONE" /\ watchdog'[session'] = "none"
               /\ \A s \in Sessions : s = session' => ~FallbackPending(s)') ]_vars

\* The second session's stream has been opened after its upload, and a
\* frame has been handled in it.
C35_Witness ==
  /\ session = 2 /\ uploadPc = "idle" /\ es[2] = "OPEN" /\ watchdog[2] = "armed"
  /\ Len(updates) = 3 /\ updates[2] = UploadedEntry /\ origin[3] = "stream"

\* While a stream is connecting or open its watchdog is armed; once the
\* watchdog has fired the stream is closed; the firing leaves the stream
\* closed, and on a stream already closed it changes nothing, as close() on
\* a closed stream does.
ClosedByWatchdog ==
  \A s \in Sessions :
    /\ (es[s] \in {"CONNECTING", "OPEN"} => watchdog[s] = "armed")
    /\ (watchdog[s] = "fired" => es[s] = "CLOSED")
    /\ (watchdog[s] = "armed"
          => /\ watchdogTimeout(Cur(s)).readyState = "CLOSED"
             /\ (es[s] = "CLOSED" => watchdogTimeout(Cur(s)) = Cur(s)))
    /\ close(close(Cur(s))) = close(Cur(s))

\* C36: with the watchdog timer firing once armed, every stream that is
\* connecting or open is closed in the end, whatever frames and errors
\* arrive, and no later than the watchdog's firing; closing a closed stream
\* changes nothing.
C36_StreamEventuallyClosed ==
  /\ []ClosedByWatchdog
  /\ \A s \in Sessions : (es[s] \in {"CONNECTING", "OPEN"}) ~> (es[s] = "CLOSED")

\* The watchdog closed the stream of a session in which a real update had
\* landed and which is still loading.
C36_Witness ==
  /\ session >= 1 /\ loading /\ hasRealUpdatesRef
  /\ watchdog[session] = "fired" /\ es[session] = "CLOSED"

\* Nothing of submit s but its watchdog can run any more.
Quiet(s) ==
  es[s] \in {"NONE", "CLOSED"} /\ ~FallbackPending(s)

\* C37: a terminal session has its stream closed and no fallback callback
\* pending, and so has every submit before the current one; a callback of
\* an earlier submit, which can only be its watchdog, changes nothing of the
\* session: not the log, the flags, loading or the fallback's timers.
C37_NoCarryover ==
  [][ /\ \A s \in Sessions : (Terminal' /\ s <= session') => Quiet(s)'
      /\ \A s \in Sessions : s < session' => Quiet(s)'
      /\ \A s \in Sessions :
           (s < session /\ session' = session
              /\ <<es[s], watchdog[s], simTimers[s], simReading[s], batches[s]>>'
                    # <<es[s], watchdog[s], simTimers[s], simReading[s], batches[s]>>)
             => /\ watchdog[s] = "armed" /\ watchdog'[s] = "fired"
                /\ UNCHANGED <<sessionVars, simReading, simStarted, batches, frames>> ]_vars

\* The watchdog of the first submit is still pending while the second
\* session is in its fallback.
C37_Witness ==
  /\ session = 2 /\ loading /\ demoModeRef
  /\ watchdog[1] = "armed" /\ es[1] = "CLOSED"
  /\ "step" \in Range(origin)

\* C38: the final step of the fallback reports APPROVED only for the policy
\* result approved, REJECTED exactly for rejected, and NEEDS REVIEW whenever
\* the policy step flagged the expense or asked for review.
C38_VerdictAgrees ==
  [][ FinalStepFires
        => LET m == Last(updates').message
               k == RunClass
           IN /\ (m \in ApprovedMessages(k.amount, 95, 99) => k.policyResult = "approved")
              /\ (m = RejectedText(k.amount) <=> k.policyResult = "rejected")
              /\ (k.policyResult \in {"flagged", "review"} => m = ReviewText(k.amount))
    ]_vars

\* C39: in a session whose log holds a stream notification, a TIMEOUT frame,
\* a connection error and the watchdog firing on a stream not yet closed
\* each do no more than close the stream: the log, the mode flags, loading
\* and the fallback's timers stay as they are.
C39_StallAfterRealOnlyCloses ==
  \A s \in Sessions :
    (s = session /\ es[s] # "NONE" /\ "stream" \in Range(origin))
      => /\ (es[s] = "OPEN" => onmessage(Cur(s), TimeoutFrame) = close(Cur(s)))
         /\ (es[s] \in {"CONNECTING", "OPEN"} => onerror(Cur(s)) = close(Cur(s)))
         /\ (watchdog[s] = "armed" /\ es[s] # "CLOSED"
               => watchdogTimeout(Cur(s)) = close(Cur(s)))

\* After a real update a TIMEOUT frame closed the stream: the session is
\* still live and loading, with the one stream entry in its log.
C39_Witness ==
  /\ session = 1 /\ frames = 2 /\ Mode = "live" /\ loading
  /\ es[1] = "CLOSED" /\ watchdog[1] = "armed"
  /\ Len(updates) = 3 /\ origin[3] = "stream"

====
